---- MODULE Spec2Model ----
(***************************************************************************)
(* Model of src/main.py: the Starlink coverage driver.  One run of the     *)
(* script is a process with index `process` (sys.argv[1]); it loads the    *)
(* satellite catalog, iterates TIME_PER_PROCESS one-minute steps starting  *)
(* at START_TIME, accumulates per-cell visit counts in `coverage`, and     *)
(* writes them to h3_<resolution>_cov_<process>.txt.                       *)
(*                                                                         *)
(* Units: altitudes are integers in tenths of a kilometre, angles are      *)
(* whole degrees, sines are integers in ten-thousandths, simulation times  *)
(* are minutes past 2020-06-20T00:00 UTC.                                  *)
(***************************************************************************)
EXTENDS Integers, Sequences, FiniteSets, TLC

VARIABLES
    catalog,   \* the TLE file the Loader returns (environment input)
    runs,      \* the process indices of the runs that were started
    proc,      \* run -> the script's globals and its position
    files,     \* the working directory: file name -> list of lines
    openedBy   \* history: file name -> the runs that opened it for writing

vars == <<catalog, runs, proc, files, openedBy>>

----------------------------------------------------------------------------
(* Bounds of the model *)

\* longest catalog the Loader returns
MaxSats == 2

----------------------------------------------------------------------------
(* Constants of the script *)

\* R_MEAN = 6378.1 km, in tenths of a kilometre
R_MEAN == 63781

H3_RESOLUTION_LEVEL == 4

\* RIGHT_ANGLE = to_rads(90), in degrees
RIGHT_ANGLE == 90

\* the minimum terminal elevation passed to calcCapAngle, in degrees
TERM_ANGLE == 35

\* the progress line is printed when i % 30 == 0
PROGRESS_EVERY == 30

\* the name looked up in the start-up subpoints dict
SAT1_NAME == "STARLINK-1284"

TIME_PER_PROCESS == 1440 \div 4

\* a faulty START_TIME: the window start counted from 1 instead of 0
START_TIME_FromOne(process) == (process + 1) * TIME_PER_PROCESS

START_TIME(process) == process * TIME_PER_PROCESS

\* the values of sys.argv[1] the partitioning is designed for
ProcessIndices == 0 .. 3

----------------------------------------------------------------------------
(* Arithmetic helpers *)

Abs(x) == IF x < 0 THEN 0 - x ELSE x

\* math.sin for whole degrees 0..90, in ten-thousandths
SinTable ==
    << 0, 175, 349, 523, 698, 872, 1045, 1219, 1392, 1564, 1736, 1908, 2079,
       2250, 2419, 2588, 2756, 2924, 3090, 3256, 3420, 3584, 3746, 3907, 4067,
       4226, 4384, 4540, 4695, 4848, 5000, 5150, 5299, 5446, 5592, 5736, 5878,
       6018, 6157, 6293, 6428, 6561, 6691, 6820, 6947, 7071, 7193, 7314, 7431,
       7547, 7660, 7771, 7880, 7986, 8090, 8192, 8290, 8387, 8480, 8572, 8660,
       8746, 8829, 8910, 8988, 9063, 9135, 9205, 9272, 9336, 9397, 9455, 9511,
       9563, 9613, 9659, 9703, 9744, 9781, 9816, 9848, 9877, 9903, 9925, 9945,
       9962, 9976, 9986, 9994, 9998, 10000 >>

\* math.sin of an angle of 0..180 degrees
Sin(deg) == IF deg <= 90 THEN SinTable[deg + 1] ELSE SinTable[(180 - deg) + 1]

\* the largest degree e in lo..hi whose lower midpoint
\* (sin(e-1) + sin(e)) / 2 lies at or below a; lo when there is none
RECURSIVE AsinSearch(_, _, _)
AsinSearch(a, lo, hi) ==
    IF lo = hi THEN lo
    ELSE LET mid == (lo + hi + 1) \div 2
         IN  IF SinTable[mid] + SinTable[mid + 1] <= 2 * a
             THEN AsinSearch(a, mid, hi)
             ELSE AsinSearch(a, lo, mid - 1)

\* math.asin of x in [-1, 1] (ten-thousandths), to the nearest degree
Asin(x) ==
    LET d == AsinSearch(Abs(x), 0, 90)
    IN  IF x < 0 THEN 0 - d ELSE d

\* str(n) of a Python int, as a sequence of characters
RECURSIVE DecStr(_)
DecStr(n) ==
    LET digit(k) == <<"0", "1", "2", "3", "4", "5", "6", "7", "8", "9">>[k + 1]
    IN  IF n < 0 THEN <<"-">> \o DecStr(0 - n)
        ELSE IF n < 10 THEN <<digit(n)>>
        ELSE DecStr(n \div 10) \o <<digit(n % 10)>>

----------------------------------------------------------------------------
(* Footprint geometry *)

\* calcCapAngle: the cap half-angle lambda_FOV / 2 in degrees, or the
\* exception math.asin or the division raises
calcCapAngle(altitude, term_angle) ==
    LET epsilon == term_angle
        num     == Sin(epsilon + RIGHT_ANGLE) * R_MEAN
        den     == R_MEAN + altitude
    IN  IF den = 0
        THEN [raised |-> "ZeroDivisionError", value |-> 0]
        ELSE IF Abs(num) > 10000 * Abs(den)
        THEN [raised |-> "ValueError", value |-> 0]
        ELSE LET q          == Abs(num) \div Abs(den)
                 eta_FOV    == Asin(IF den < 0 THEN 0 - q ELSE q)
                 lambda_FOV == 2 * (180 - (epsilon + RIGHT_ANGLE + eta_FOV))
             IN  [raised |-> "none", value |-> lambda_FOV \div 2]

----------------------------------------------------------------------------
(* The orbital propagator (skyfield) as the script sees it: a deterministic  *)
(* function of a satellite's element set and the time.                     *)

Names == {SAT1_NAME, "STARLINK-1007"}

\* the element sets the catalog draws from, by the ground track they give
Orbits == {"equatorial", "inclined", "polar", "decaying"}

\* a satellite record of the catalog
TLEs == [name : Names, orbit : Orbits]

Catalogs == UNION {[1 .. n -> TLEs] : n \in 0 .. MaxSats}

\* the wall-clock instants ts.now() may return at start-up
NowMinutes == {0, 400}

\* sat.at(time).subpoint(): latitude and longitude in degrees, elevation in
\* tenths of a kilometre
SubpointAt(sat, minute) ==
    CASE sat.orbit = "equatorial" ->
            [lat |-> 0, lng |-> IF minute % 2 = 0 THEN 0 ELSE 10,
             elevation |-> 5500]
      [] sat.orbit = "inclined" ->
            [lat |-> IF minute % 3 = 2 THEN 0 ELSE 45,
             lng |-> CASE minute % 3 = 0 -> 0 - 93
                       [] minute % 3 = 1 -> 0 - 83
                       [] OTHER -> 10,
             elevation |-> 5500]
      [] sat.orbit = "polar" ->
            [lat |-> IF minute % TIME_PER_PROCESS = 2 THEN 90 ELSE 0,
             lng |-> 0, elevation |-> 5500]
      [] sat.orbit = "decaying" ->
            [lat |-> 0, lng |-> 10,
             elevation |-> CASE minute < 364 -> 5500
                             [] minute = 364 -> 0 - R_MEAN
                             [] OTHER -> 0 - 12000]

----------------------------------------------------------------------------
(* Python dict and defaultdict *)

\* d[k] = v on a dict kept as the sequence of its items in insertion order
DictPut(d, k, v) ==
    IF \E j \in 1 .. Len(d) : d[j][1] = k
    THEN [j \in 1 .. Len(d) |-> IF d[j][1] = k THEN <<k, v>> ELSE d[j]]
    ELSE Append(d, <<k, v>>)

DictKeys(d) == {d[j][1] : j \in 1 .. Len(d)}

DictGet(d, k) == d[CHOOSE j \in 1 .. Len(d) : d[j][1] = k][2]

\* {sat.name : sat.at(time).subpoint() for sat in sats}
RECURSIVE SubpointsFrom(_, _, _, _)
SubpointsFrom(sats, k, minute, d) ==
    IF k > Len(sats) THEN d
    ELSE SubpointsFrom(sats, k + 1, minute,
                       DictPut(d, sats[k].name, SubpointAt(sats[k], minute)))

Subpoints(sats, minute) == SubpointsFrom(sats, 1, minute, <<>>)

\* defaultdict(int): a missing key reads as 0
CountOf(coverage, cell) ==
    IF cell \in DOMAIN coverage THEN coverage[cell] ELSE 0

EmptyCoverage == [cell \in {} |-> 0]

----------------------------------------------------------------------------
(* Grid mapper *)

\* geog.propagate(p, angles, d): the ring of n_points points at distance d
\* around p
GeogPropagate(p, d) == [center |-> p, d |-> d, n_points |-> 20]

\* shapely.geometry.Polygon(polygon) raises ValueError on a degenerate ring
PolygonRaises(polygon) == Abs(polygon.center[2]) = 90

\* h3.polyfill(mapping, resolution, True): the cells whose centre the
\* polygon contains
H3Polyfill(mapping, resolution) ==
    CASE mapping.d = 0 -> {}
      [] mapping.center = <<0, 0>> -> {"c1", "c2"}
      [] mapping.center = <<10, 0>> -> {"c2", "c3"}
      [] mapping.center = <<0 - 93, 45>> -> {"c3"}
      [] OTHER -> {}

\* a line of standard output
Line(kind, args) == [kind |-> kind, args |-> args]

\* a faulty get_cell_ids_h3: the handler falls through to a polygon kept
\* from an earlier call
get_cell_ids_h3_StaleMapping(lat, lng, angle) ==
    LET p       == <<lng, lat>>
        d       == (R_MEAN * angle) * 1000
        polygon == GeogPropagate(p, d)
    IN  IF PolygonRaises(polygon)
        THEN [raised |-> "none",
              cells  |-> H3Polyfill(GeogPropagate(<<0, 0>>, d),
                                    H3_RESOLUTION_LEVEL),
              out    |-> <<Line("lat_lng", <<lat, lng>>),
                           Line("polygon", <<lng, lat, d>>)>>]
        ELSE [raised |-> "none",
              cells  |-> H3Polyfill(polygon, H3_RESOLUTION_LEVEL),
              out    |-> <<>>]

\* get_cell_ids_h3: the cells of the cap, or the exception that leaves the
\* function, with the lines it printed
get_cell_ids_h3(lat, lng, angle) ==
    LET p          == <<lng, lat>>
        arc_length == R_MEAN * angle
        d          == arc_length * 1000
        polygon    == GeogPropagate(p, d)
    IN  IF PolygonRaises(polygon)
        THEN \* except ValueError: two prints; then `mapping` is read unbound
             [raised |-> "UnboundLocalError",
              cells  |-> {},
              out    |-> <<Line("lat_lng", <<lat, lng>>),
                           Line("polygon", <<lng, lat, d>>)>>]
        ELSE [raised |-> "none",
              cells  |-> H3Polyfill(polygon, H3_RESOLUTION_LEVEL),
              out    |-> <<>>]

----------------------------------------------------------------------------
(* The driver: one run of the script *)

\* the globals of a run before its first statement
InitialRun(process) ==
    [process      |-> process,
     pc           |-> "start",
     exc          |-> "none",
     sats         |-> <<>>,
     i            |-> 0,
     subpoints    |-> <<>>,
     coverage_set |-> {},
     coverage     |-> EmptyCoverage,
     stdout       |-> <<>>,
     minutes      |-> <<>>]

\* a faulty Raise: the exception ends the loop, but the output is written
\* all the same
Raise_ThenWrite(s, exception) == [s EXCEPT !.pc = "write", !.exc = exception]

\* an exception no handler catches: the interpreter prints the traceback and
\* the process exits
Raise(s, exception) == [s EXCEPT !.pc = "crashed", !.exc = exception]

\* `if len(cells) == 0: Exception("empty region returned")`: the exception
\* object is constructed and dropped, nothing is raised
EmptyRegionCheck(cells) == "none"

\* the body of `for sat_name, sat in subpoints.items()` from item k on
RECURSIVE SatLoop(_, _, _, _)
SatLoop(items, k, coverage_set, out) ==
    IF k > Len(items)
    THEN [raised |-> "none", coverage_set |-> coverage_set, out |-> out]
    ELSE LET sat   == items[k][2]
             angle == calcCapAngle(sat.elevation, TERM_ANGLE)
         IN  IF angle.raised # "none"
             THEN [raised |-> angle.raised, coverage_set |-> coverage_set,
                   out |-> out]
             ELSE LET got == get_cell_ids_h3(sat.lat, sat.lng, angle.value)
                  IN  IF got.raised # "none"
                      THEN [raised |-> got.raised,
                            coverage_set |-> coverage_set,
                            out |-> out \o got.out]
                      ELSE IF EmptyRegionCheck(got.cells) # "none"
                      THEN [raised |-> EmptyRegionCheck(got.cells),
                            coverage_set |-> coverage_set,
                            out |-> out \o got.out]
                      ELSE SatLoop(items, k + 1,
                                   coverage_set \cup got.cells,
                                   out \o got.out)

\* a faulty Accumulate: the key is touched without counting a first visit
Accumulate_SkipFirst(coverage, coverage_set) ==
    [cell \in DOMAIN coverage \cup coverage_set |->
        IF cell \in coverage_set /\ cell \in DOMAIN coverage
        THEN coverage[cell] + 1
        ELSE CountOf(coverage, cell)]

\* `for cell in coverage_set: coverage[cell] += 1`
Accumulate(coverage, coverage_set) ==
    [cell \in DOMAIN coverage \cup coverage_set |->
        CountOf(coverage, cell) + (IF cell \in coverage_set THEN 1 ELSE 0)]

\* the accumulation moved into the satellite loop: one increment per
\* satellite and cell instead of one per cell of the union
RECURSIVE AccumulatePerSatellite(_, _, _)
AccumulatePerSatellite(items, k, coverage) ==
    IF k > Len(items) THEN coverage
    ELSE LET sat   == items[k][2]
             angle == calcCapAngle(sat.elevation, TERM_ANGLE)
             got   == get_cell_ids_h3(sat.lat, sat.lng, angle.value)
         IN  AccumulatePerSatellite(items, k + 1,
                                    Accumulate(coverage, got.cells))

\* a faulty DriverStep: one iteration with the per-satellite accumulation
DriverStep_PerSatellite(s) ==
    LET minute == START_TIME(s.process) + s.i
        out0   == IF s.i % PROGRESS_EVERY = 0
                  THEN Append(s.stdout, Line("utc_iso", <<minute>>))
                  ELSE s.stdout
        sp     == Subpoints(s.sats, minute)
        loop   == SatLoop(sp, 1, {}, <<>>)
        s1     == [s EXCEPT !.subpoints    = sp,
                            !.coverage_set = loop.coverage_set,
                            !.stdout       = out0 \o loop.out,
                            !.minutes      = Append(@, minute)]
    IN  IF loop.raised # "none"
        THEN Raise(s1, loop.raised)
        ELSE [s1 EXCEPT !.coverage = AccumulatePerSatellite(sp, 1, s.coverage),
                        !.i        = s.i + 1,
                        !.pc       = IF s.i + 1 < TIME_PER_PROCESS
                                     THEN "loop" ELSE "write"]

\* one iteration of `for i in range(TIME_PER_PROCESS)`
DriverStep(s) ==
    LET minute == START_TIME(s.process) + s.i
        out0   == IF s.i % PROGRESS_EVERY = 0
                  THEN Append(s.stdout, Line("utc_iso", <<minute>>))
                  ELSE s.stdout
        sp     == Subpoints(s.sats, minute)
        loop   == SatLoop(sp, 1, {}, <<>>)
        s1     == [s EXCEPT !.subpoints    = sp,
                            !.coverage_set = loop.coverage_set,
                            !.stdout       = out0 \o loop.out,
                            !.minutes      = Append(@, minute)]
    IN  IF loop.raised # "none"
        THEN Raise(s1, loop.raised)
        ELSE [s1 EXCEPT !.coverage = Accumulate(s.coverage, loop.coverage_set),
                        !.i        = s.i + 1,
                        !.pc       = IF s.i + 1 < TIME_PER_PROCESS
                                     THEN "loop" ELSE "write"]

\* the iterations from the current one up to the next progress line
RECURSIVE DriverSteps(_, _)
DriverSteps(s, n) ==
    IF n = 0 \/ s.pc # "loop" THEN s ELSE DriverSteps(DriverStep(s), n - 1)

\* the statements before the loop: load the catalog, look up sat1 at `now`
StartUp(s, sats, now) ==
    LET s1 == [s EXCEPT !.sats      = sats,
                        !.stdout    = Append(@, Line("loaded", <<Len(sats)>>)),
                        !.subpoints = Subpoints(sats, now)]
    IN  IF SAT1_NAME \notin DictKeys(s1.subpoints)
        THEN Raise(s1, "KeyError")
        ELSE LET sat1  == DictGet(s1.subpoints, SAT1_NAME)
                 angle == calcCapAngle(sat1.elevation, TERM_ANGLE)
             IN  IF angle.raised # "none"
                 THEN Raise(s1, angle.raised)
                 ELSE [s1 EXCEPT !.pc = IF TIME_PER_PROCESS > 0
                                        THEN "loop" ELSE "write"]

\* a faulty FileName: the output file name without the process index
FileName_NoIndex(process) ==
    <<"h", "3", "_">> \o DecStr(H3_RESOLUTION_LEVEL)
        \o <<"_", "c", "o", "v", ".", "t", "x", "t">>

\* f"h3_{H3_RESOLUTION_LEVEL}_cov_{process}.txt"
FileName(process) ==
    <<"h", "3", "_">> \o DecStr(H3_RESOLUTION_LEVEL)
        \o <<"_", "c", "o", "v", "_">> \o DecStr(process)
        \o <<".", "t", "x", "t">>

\* f"{cell},{cov}\n"
Record(cell, cov) == <<cell, ",">> \o DecStr(cov) \o <<"\n">>

\* the orders coverage.items() may yield: cells first seen in the same step
\* were inserted in set-iteration order
ItemOrders(coverage) ==
    {o \in [1 .. Cardinality(DOMAIN coverage) -> DOMAIN coverage] :
        \A a, b \in DOMAIN o : a # b => o[a] # o[b]}

\* the lines written by `for cell, cov in coverage.items()`
OutputLines(coverage, order) ==
    [k \in 1 .. Len(order) |-> Record(order[k], coverage[order[k]])]

----------------------------------------------------------------------------
(* Actions *)

NoFiles == [name \in {} |-> <<>>]

Init ==
    /\ catalog \in Catalogs
    /\ \E process \in ProcessIndices : runs = {process}
    /\ proc = [r \in runs |-> InitialRun(r)]
    /\ files = NoFiles
    /\ openedBy = [name \in {} |-> {}]

\* lines 160-170
Start(r) ==
    /\ r \in runs
    /\ proc[r].pc = "start"
    /\ \E now \in NowMinutes :
          proc' = [proc EXCEPT ![r] = StartUp(@, catalog, now)]
    /\ UNCHANGED <<catalog, runs, files, openedBy>>

\* lines 202-216, one iteration
Step(r) ==
    /\ r \in runs
    /\ proc[r].pc = "loop"
    /\ proc' = [proc EXCEPT ![r] = DriverStep(@)]
    /\ UNCHANGED <<catalog, runs, files, openedBy>>

\* lines 218-220
WriteOutput(r) ==
    /\ r \in runs
    /\ proc[r].pc = "write"
    /\ \E order \in ItemOrders(proc[r].coverage) :
          LET name == FileName(proc[r].process)
          IN  /\ files' = [f \in DOMAIN files \cup {name} |->
                              IF f = name
                              THEN OutputLines(proc[r].coverage, order)
                              ELSE files[f]]
              /\ openedBy' = [f \in DOMAIN openedBy \cup {name} |->
                                 IF f = name
                                 THEN (IF f \in DOMAIN openedBy
                                       THEN openedBy[f] ELSE {}) \cup {r}
                                 ELSE openedBy[f]]
    /\ proc' = [proc EXCEPT ![r].pc = "done"]
    /\ UNCHANGED <<catalog, runs>>

Next == \E r \in ProcessIndices : Start(r) \/ Step(r) \/ WriteOutput(r)

Spec == Init /\ [][Next]_vars

----------------------------------------------------------------------------
(* Several runs started side by side on one working directory.  A run's    *)
(* loop reads and writes only its own globals, so the iterations between   *)
(* two progress lines are taken as one step here.                          *)

\* the catalogs of the side-by-side runs: at most one satellite
ParCatalogs == {c \in Catalogs : Len(c) <= 1}

InitPar ==
    /\ catalog \in ParCatalogs
    /\ runs \in {S \in SUBSET ProcessIndices : Cardinality(S) = 2}
    /\ proc = [r \in runs |-> InitialRun(r)]
    /\ files = NoFiles
    /\ openedBy = [name \in {} |-> {}]

\* lines 202-216, the iterations up to the next progress line
Chunk(r) ==
    /\ r \in runs
    /\ proc[r].pc = "loop"
    /\ proc' = [proc EXCEPT ![r] = DriverSteps(@, PROGRESS_EVERY)]
    /\ UNCHANGED <<catalog, runs, files, openedBy>>

NextPar == \E r \in ProcessIndices : Start(r) \/ Chunk(r) \/ WriteOutput(r)

SpecPar == InitPar /\ [][NextPar]_vars

----------------------------------------------------------------------------
(* Vocabulary of the properties *)

Cells == {"c1", "c2", "c3"}

\* the cell set the grid mapper returns for a sub-satellite point whose cap
\* angle is defined
CellsOf(sat) ==
    get_cell_ids_h3(sat.lat, sat.lng,
                    calcCapAngle(sat.elevation, TERM_ANGLE).value).cells

CapRaises(sat) == calcCapAngle(sat.elevation, TERM_ANGLE).raised # "none"

\* polygon construction fails for the cap around a sub-satellite point
PolygonFails(sat) == PolygonRaises(GeogPropagate(<<sat.lng, sat.lat>>, 0))

\* item j of the step's dict is reached: no earlier item raised
Reached(items, j) ==
    \A h \in 1 .. j - 1 : ~CapRaises(items[h][2]) /\ ~PolygonFails(items[h][2])

\* run r takes an iteration of the loop in this step
Iterates(r) == proc[r].pc = "loop" /\ proc'[r] # proc[r]

\* run r completes an iteration of the loop in this step
Completes(r) == Iterates(r) /\ proc'[r].i = proc[r].i + 1

\* the number of satellites of the step's dict whose cell set contains c
Covering(items, c) ==
    Cardinality({j \in 1 .. Len(items) : c \in CellsOf(items[j][2])})

\* the cells at least one satellite record of the catalog covers at a minute
CatalogCells(sats, minute) ==
    UNION {CellsOf(SubpointAt(sats[k], minute)) : k \in 1 .. Len(sats)}

\* the number of steps of run r's window in which a catalog satellite covers c
StepsCovering(sats, r, c) ==
    Cardinality({j \in 0 .. 359 : c \in CatalogCells(sats, r * 360 + j)})

\* range(TIME_PER_PROCESS) shifted by START_TIME: is minute m in p's window
InWindow(p, m) ==
    START_TIME(p) <= m /\ m < START_TIME(p) + TIME_PER_PROCESS

MinuteSet(r) == {proc[r].minutes[k] : k \in 1 .. Len(proc[r].minutes)}

----------------------------------------------------------------------------
(* Properties *)

\* C1: in every completed time step, a cell in the cell set
\* get_cell_ids_h3 returned for one or more of the step's satellites has
\* its count raised by exactly 1, however many satellites cover it, and a
\* cell no satellite covers is untouched.
C1_UnionSemantics ==
    [][\A r \in runs : Completes(r) =>
          LET items   == proc'[r].subpoints
              covered == UNION {CellsOf(items[j][2]) : j \in 1 .. Len(items)}
          IN  /\ \A c \in covered :
                    CountOf(proc'[r].coverage, c)
                        = CountOf(proc[r].coverage, c) + 1
              /\ \A c \in Cells \ covered :
                    /\ (c \in DOMAIN proc'[r].coverage)
                           <=> (c \in DOMAIN proc[r].coverage)
                    /\ CountOf(proc'[r].coverage, c)
                           = CountOf(proc[r].coverage, c)
              /\ DOMAIN proc'[r].coverage \subseteq Cells]_vars

\* C1 witness: after the first step, a cell two satellites covered counts 1
C1_Witness ==
    \E r \in runs : \E c \in Cells :
        /\ proc[r].pc = "loop" /\ proc[r].i = 1
        /\ Covering(proc[r].subpoints, c) >= 2
        /\ CountOf(proc[r].coverage, c) = 1

\* C2: on a run that completes, the output file holds exactly one record
\* per cell a satellite covered in some step of the window, with the number
\* of steps in which a satellite covered it (between 1 and 360), and no
\* other record.
C2_OutputIsCoverage ==
    \A r \in runs : proc[r].pc = "done" =>
        LET lines   == files[FileName(r)]
            covered == {c \in Cells : StepsCovering(proc[r].sats, r, c) >= 1}
        IN  /\ Len(lines) = Cardinality(covered)
            /\ \A c \in covered :
                  /\ StepsCovering(proc[r].sats, r, c) \in 1 .. 360
                  /\ \E k \in 1 .. Len(lines) :
                        lines[k] = Record(c, StepsCovering(proc[r].sats, r, c))

\* C3: a run with index p in 0..3 uses 360 steps per partition and start
\* offset p * 360, and simulates the minutes p*360, p*360+1, ... in this
\* order, each once, all of them in [0, 1440); when the loop is over it has
\* simulated exactly the 360 minutes up to p*360+359.
C3_Window ==
    \A r \in runs : r \in 0 .. 3 =>
        /\ TIME_PER_PROCESS = 360
        /\ START_TIME(r) = r * 360
        /\ Len(proc[r].minutes) <= 360
        /\ \A k \in 1 .. Len(proc[r].minutes) :
              /\ proc[r].minutes[k] = r * 360 + (k - 1)
              /\ proc[r].minutes[k] \in 0 .. 1439
        /\ proc[r].pc = "loop" =>
              Len(proc[r].minutes) = proc[r].i
        /\ proc[r].pc \in {"write", "done"} =>
              Len(proc[r].minutes) = 360

\* C3 witness: the last partition has finished at minute 1439
C3_Witness ==
    \E r \in runs :
        /\ r = 3 /\ proc[r].pc = "done"
        /\ proc[r].minutes[360] = 1439

\* C4: two runs with distinct process indices, interleaved in any order,
\* simulate disjoint sets of minutes and write different files, so no file
\* is written by two runs; the four windows cover each minute 0..1439 of
\* the day exactly once.
C4_DisjointRuns ==
    /\ \A p, q \in runs : p # q =>
          /\ MinuteSet(p) \cap MinuteSet(q) = {}
          /\ (proc[p].pc = "done" /\ proc[q].pc = "done") =>
                /\ FileName(p) \in DOMAIN files
                /\ FileName(q) \in DOMAIN files
                /\ FileName(p) # FileName(q)
    /\ \A f \in DOMAIN openedBy : Cardinality(openedBy[f]) <= 1
    /\ (\A r \in runs : proc[r].pc = "done") =>
          /\ \A r \in runs : \A m \in 0 .. 1439 :
                InWindow(r, m) <=> m \in MinuteSet(r)
          /\ \A m \in 0 .. 1439 :
                Cardinality({p \in ProcessIndices : InWindow(p, m)}) = 1

\* C4 witness: two runs have both written their files
C4_Witness ==
    /\ Cardinality(runs) = 2
    /\ \A r \in runs : proc[r].pc = "done"
    /\ Cardinality(DOMAIN files) = 2

\* C5: the coverage map only grows: no key is removed, no count decreases,
\* a key first seen in a step has count 1 after it, and every key has a
\* count of at least 1 and at most the number of steps processed.
C5_MonotoneCoverage ==
    /\ [](\A r \in runs : \A c \in DOMAIN proc[r].coverage :
             proc[r].coverage[c] >= 1 /\ proc[r].coverage[c] <= proc[r].i)
    /\ [][\A r \in runs :
             /\ DOMAIN proc[r].coverage \subseteq DOMAIN proc'[r].coverage
             /\ \A c \in DOMAIN proc[r].coverage :
                   proc'[r].coverage[c] >= proc[r].coverage[c]
             /\ \A c \in DOMAIN proc'[r].coverage \ DOMAIN proc[r].coverage :
                   proc'[r].coverage[c] = 1]_vars

\* C5 witness: after several steps one key counts every step and another
\* was seen once
C5_Witness ==
    \E r \in runs : \E c, d \in DOMAIN proc[r].coverage :
        /\ proc[r].i >= 3
        /\ proc[r].coverage[c] = proc[r].i
        /\ proc[r].coverage[d] = 1

\* C6: when the grid mapper returns an empty cell set for a satellite in a
\* step, the error is raised or reported: the run does not go on through
\* that step as if nothing had happened.
C6_EmptyRegionFlagged ==
    [][\A r \in runs :
          (/\ Iterates(r)
           /\ \E j \in 1 .. Len(proc'[r].subpoints) :
                 /\ Reached(proc'[r].subpoints, j)
                 /\ ~CapRaises(proc'[r].subpoints[j][2])
                 /\ ~PolygonFails(proc'[r].subpoints[j][2])
                 /\ CellsOf(proc'[r].subpoints[j][2]) = {})
          => \/ proc'[r].pc = "crashed"
             \/ \E k \in 1 .. Len(proc'[r].stdout) :
                   proc'[r].stdout[k].kind = "empty_region"]_vars

\* C7: a domain error of calcCapAngle for one satellite in one step is
\* confined to that satellite and step: the run does not crash, the step
\* completes and the loop goes on.
C7_DomainErrorConfined ==
    [][\A r \in runs :
          (/\ Iterates(r)
           /\ \E j \in 1 .. Len(proc'[r].subpoints) :
                 /\ Reached(proc'[r].subpoints, j)
                 /\ CapRaises(proc'[r].subpoints[j][2]))
          => /\ proc'[r].pc # "crashed"
             /\ proc'[r].i = proc[r].i + 1]_vars

\* C8: when polygon construction fails in get_cell_ids_h3, the mapper
\* prints the satellite's coordinates and returns no cell set: the failure
\* reaches the driver, which stops, and no count is incremented.
C8_PolygonFailureSurfaces ==
    [][\A r \in runs :
          (/\ Iterates(r)
           /\ \E j \in 1 .. Len(proc'[r].subpoints) :
                 /\ Reached(proc'[r].subpoints, j)
                 /\ ~CapRaises(proc'[r].subpoints[j][2])
                 /\ PolygonFails(proc'[r].subpoints[j][2]))
          => /\ proc'[r].pc = "crashed"
             /\ proc'[r].exc # "none"
             /\ proc'[r].coverage = proc[r].coverage
             /\ proc'[r].i = proc[r].i
             /\ \E j \in 1 .. Len(proc'[r].subpoints) :
                   LET sat == proc'[r].subpoints[j][2]
                       n   == Len(proc'[r].stdout)
                   IN  /\ PolygonFails(sat)
                       /\ n >= 2
                       /\ proc'[r].stdout[n - 1]
                              = Line("lat_lng", <<sat.lat, sat.lng>>)
             /\ files' = files]_vars

\* C8 witness: a run stopped by the failure after counting earlier steps
C8_Witness ==
    \E r \in runs :
        /\ proc[r].pc = "crashed"
        /\ proc[r].exc = "UnboundLocalError"
        /\ proc[r].i = 2
        /\ proc[r].coverage # EmptyCoverage
        /\ \E j \in 1 .. Len(proc[r].subpoints) :
              proc[r].subpoints[j][2].lat = 90

\* C9: a run that fails in a step terminates without retrying and without
\* writing a record: the file is written only after all 360 steps, so a
\* written file holds the counts of the complete window, never of a prefix.
C9_NoPartialOutput ==
    /\ [](\A r \in runs :
             /\ proc[r].pc = "crashed" => FileName(r) \notin DOMAIN files
             /\ FileName(r) \in DOMAIN files =>
                   /\ proc[r].pc = "done"
                   /\ proc[r].exc = "none"
                   /\ proc[r].i = 360
                   /\ Len(proc[r].minutes) = 360
                   /\ {files[FileName(r)][k] :
                           k \in 1 .. Len(files[FileName(r)])}
                        = {Record(c, proc[r].coverage[c]) :
                              c \in DOMAIN proc[r].coverage})
    /\ [][\A r \in runs :
             proc[r].pc = "crashed" => proc'[r] = proc[r]]_vars

\* C9 witness: a run failed after it had counted cells, and no file exists
C9_Witness ==
    \E r \in runs :
        /\ proc[r].pc = "crashed"
        /\ proc[r].i >= 1
        /\ proc[r].coverage # EmptyCoverage
        /\ DOMAIN files = {}

\* C10: in every completed step the union of cells contains the cell set of
\* every satellite record of the catalog, records sharing a name included.
C10_EveryRecordContributes ==
    \A r \in runs :
        (proc[r].pc \in {"loop", "write"} /\ proc[r].i >= 1) =>
            \A k \in 1 .. Len(proc[r].sats) :
                CellsOf(SubpointAt(proc[r].sats[k],
                                   r * 360 + proc[r].i - 1))
                    \subseteq proc[r].coverage_set

====
